---- MODULE Spec2Model ----
(***************************************************************************)
(* A model of spring_actuator_checker.py: the three probes of              *)
(* SpringActuatorChecker (check_actuator_health, check_actuator_info,      *)
(* check_custom_api), the deployment aggregation check_deployment_status,  *)
(* the contract check validate_request_response_contract and main().       *)
(* Spec is the checker under all its inputs; Spec18 is one checker called  *)
(* repeatedly under a few inputs, its ended calls remembered.              *)
(*                                                                         *)
(* Python values are records tagged with the name of their class, so that  *)
(* None, strings, numbers, lists and dicts can be held by one field.       *)
(* Python str values that are never None (endpoint, method) are strings.   *)
(***************************************************************************)
EXTENDS Integers, Sequences, FiniteSets, TLC

VARIABLES
    base_url_arg,   \* base_url as passed to __init__
    base_url,       \* self.base_url, set by __init__
    json_error,     \* the class of the exception response.json() raises on an undecodable body
    pc,             \* position of the running top-level operation ("idle" between calls, "done" when it ended)
    op,             \* the top-level operation running or last run
    args,           \* the arguments of that operation
    sent,           \* the requests issued through self.session during that operation, in order
    got,            \* what came of each of them: the response, or the transport error
    health_result,  \* local of check_deployment_status
    info_result,    \* local of check_deployment_status
    api_result,     \* local of validate_request_response_contract
    ret,            \* how the last top-level operation ended: a returned value or a raised exception
    main,           \* the run of main(): its parsed arguments, its stage and its exit code
    scope,          \* "wide": callers draw from all the inputs; "narrow": from a few, and the calls are remembered
    earlier         \* under the narrow scope, the last calls that ended on this checker, most recent last

vars == <<base_url_arg, base_url, json_error, pc, op, args, sent, got, health_result, info_result, api_result, ret, main, scope, earlier>>

----------------------------------------------------------------------------
(* Bounds of the model *)

\* response_time and timestamp are drawn from 0..MaxElapsed
MaxElapsed == 1
\* an expected_response_schema has at most MaxSchemaLen fields
MaxSchemaLen == 2
\* at most MaxEarlier ended calls are remembered
MaxEarlier == 2

----------------------------------------------------------------------------
(* Python values *)

None == [type |-> "NoneType"]
PyStr(s) == [type |-> "str", s |-> s]
PyInt(n) == [type |-> "int", n |-> n]
PyBool(b) == [type |-> "bool", b |-> b]
PyList(items) == [type |-> "list", items |-> items]
PyDict(members) == [type |-> "dict", members |-> members]
EmptyDict == PyDict([k \in {} |-> None])

\* type(v).__name__
TypeName(v) == v.type

\* bool(v): the truth value Python gives v in `if v` and `v or w`
Truthy(v) ==
    CASE v.type = "NoneType" -> FALSE
      [] v.type = "str" -> v.s # ""
      [] v.type = "int" -> v.n # 0
      [] v.type = "bool" -> v.b
      [] v.type = "list" -> Len(v.items) > 0
      [] v.type = "dict" -> DOMAIN v.members # {}

\* a or b
PyOr(a, b) == IF Truthy(a) THEN a ELSE b

\* str.startswith
startswith(s, prefix) ==
    Len(s) >= Len(prefix) /\ SubSeq(s, 1, Len(prefix)) = prefix

\* str.rstrip('/')
RECURSIVE rstrip_slash(_)
rstrip_slash(s) ==
    IF Len(s) > 0 /\ SubSeq(s, Len(s), Len(s)) = "/"
    THEN rstrip_slash(SubSeq(s, 1, Len(s) - 1))
    ELSE s

UpperChar(c) ==
    CASE c = "a" -> "A" [] c = "b" -> "B" [] c = "c" -> "C" [] c = "d" -> "D"
      [] c = "e" -> "E" [] c = "f" -> "F" [] c = "g" -> "G" [] c = "h" -> "H"
      [] c = "i" -> "I" [] c = "j" -> "J" [] c = "k" -> "K" [] c = "l" -> "L"
      [] c = "m" -> "M" [] c = "n" -> "N" [] c = "o" -> "O" [] c = "p" -> "P"
      [] c = "q" -> "Q" [] c = "r" -> "R" [] c = "s" -> "S" [] c = "t" -> "T"
      [] c = "u" -> "U" [] c = "v" -> "V" [] c = "w" -> "W" [] c = "x" -> "X"
      [] c = "y" -> "Y" [] c = "z" -> "Z" [] OTHER -> c

\* str.upper
RECURSIVE upper(_)
upper(s) ==
    IF Len(s) = 0 THEN ""
    ELSE UpperChar(SubSeq(s, 1, 1)) \o upper(SubSeq(s, 2, Len(s)))

\* sub in s, for two str
StrContains(s, sub) ==
    \E i \in 1..(Len(s) - Len(sub) + 1) : SubSeq(s, i, i + Len(sub) - 1) = sub

----------------------------------------------------------------------------
(* What the network and the server can do to one request *)

\* The bodies a server answers with: the raw text, and what json.loads makes of it.
\* decoded = FALSE: the text is not JSON and response.json() raises.
Bodies == {
    [text |-> "{\"status\": \"UP\"}", decoded |-> TRUE,
     value |-> PyDict([k \in {"status"} |-> PyStr("UP")])],
    [text |-> "{\"users\": [], \"totalCount\": 2}", decoded |-> TRUE,
     value |-> PyDict([k \in {"users", "totalCount"} |->
                          IF k = "users" THEN PyList(<<>>) ELSE PyInt(2)])],
    [text |-> "{\"users\": \"none\"}", decoded |-> TRUE,
     value |-> PyDict([k \in {"users"} |-> PyStr("none")])],
    [text |-> "{}", decoded |-> TRUE, value |-> EmptyDict],
    [text |-> "[\"users\"]", decoded |-> TRUE, value |-> PyList(<<PyStr("users")>>)],
    [text |-> "[]", decoded |-> TRUE, value |-> PyList(<<>>)],
    [text |-> "\"all users\"", decoded |-> TRUE, value |-> PyStr("all users")],
    [text |-> "2", decoded |-> TRUE, value |-> PyInt(2)],
    [text |-> "null", decoded |-> TRUE, value |-> None],
    [text |-> "<html>Not JSON response</html>", decoded |-> FALSE, value |-> None]
}

\* The status codes a server answers with
StatusCodes == {200, 201, 503}

\* requests.exceptions.RequestException raised by session.get / session.request:
\* no response was obtained
TransportErrors == {
    [cls |-> "ConnectionError", msg |-> "Connection refused"],
    [cls |-> "Timeout", msg |-> "Read timed out"]
}

Elapsed == 0..MaxElapsed

\* The outcome of one request: a response, or a transport error; `elapsed` is
\* time.time() - start_time when the request ended
Outcomes ==
    IF scope = "narrow"
    THEN [kind : {"response"}, status_code : {200, 503},
          body : {b \in Bodies : b.text = "{\"status\": \"UP\"}"},
          elapsed : {0, MaxElapsed}]
    ELSE [kind : {"response"}, status_code : StatusCodes, body : Bodies, elapsed : Elapsed]
         \cup [kind : {"error"}, error : TransportErrors, elapsed : Elapsed]

\* The session refuses a URL that names no scheme before anything is sent:
\* requests.exceptions.MissingSchema, a RequestException
InvalidURLErrors == {
    [cls |-> "MissingSchema", msg |-> "Invalid URL: No scheme supplied"]
}

HasScheme(url) == startswith(url, "http://") \/ startswith(url, "https://")

\* The outcomes session.request(url=url) can have
OutcomesOf(url) ==
    IF HasScheme(url) THEN Outcomes
    ELSE [kind : {"error"}, error : InvalidURLErrors, elapsed : Elapsed]

\* The exception response.json() raises on an undecodable body is the
\* json.JSONDecodeError the code catches at line 208 and the tests raise from their
\* mocks. Whether it is a requests.exceptions.RequestException too, and so caught by
\* the probes' outer except clause, is up to the installed requests library: the
\* class it raises derives from RequestException in some releases and not in others.
JSONErrorClasses == {
    [name |-> "json.JSONDecodeError",
     is_json_decode_error |-> TRUE, is_request_exception |-> FALSE],
    [name |-> "requests.exceptions.JSONDecodeError",
     is_json_decode_error |-> TRUE, is_request_exception |-> TRUE]
}

\* expected_status: int = 200, the default of check_custom_api
DefaultExpectedStatus == 200

\* str(e) of the exception response.json() raises
JSONErrorText == "Expecting value: line 1 column 1 (char 0)"

----------------------------------------------------------------------------
(* How a call ends *)

Return(v) == [kind |-> "return", value |-> v]
Raise(cls) == [kind |-> "raise", exc |-> cls]
NoValue == [kind |-> "none"]

\* @dataclass APICheckResult
APICheckResult(endpoint, method, status_code, response_time, success, response_body, error_message) ==
    [endpoint |-> endpoint, method |-> method, status_code |-> status_code,
     response_time |-> response_time, success |-> success,
     response_body |-> response_body, error_message |-> error_message]

\* @dataclass ModuleHealthStatus
ModuleHealthStatus(module_name, overall_status, actuator_health, api_checks, deployment_status, timestamp) ==
    [module_name |-> module_name, overall_status |-> overall_status,
     actuator_health |-> actuator_health, api_checks |-> api_checks,
     deployment_status |-> deployment_status, timestamp |-> timestamp]

\* A request as self.session sees it
Request(method, url, headers, json) ==
    [method |-> method, url |-> url, headers |-> headers, json |-> json]

----------------------------------------------------------------------------
(* The probes *)

\* The request check_actuator_health issues
health_request == Request("GET", base_url \o "/actuator/health", None, None)

\* check_actuator_health leaving error_message unset on a non-200 response
check_actuator_health_no_message(o) ==
    LET endpoint == base_url \o "/actuator/health" IN
    IF o.kind = "error"
    THEN Return(APICheckResult(endpoint, "GET", 0, o.elapsed, FALSE, None,
                               PyStr(o.error.msg)))
    ELSE LET success == o.status_code = 200 IN
         IF success /\ ~o.body.decoded
         THEN IF json_error.is_request_exception
              THEN Return(APICheckResult(endpoint, "GET", 0, o.elapsed, FALSE, None,
                                         PyStr(JSONErrorText)))
              ELSE Raise(json_error.name)
         ELSE Return(APICheckResult(
                  endpoint, "GET", o.status_code, o.elapsed, success,
                  IF success THEN o.body.value ELSE None, None))

\* check_actuator_health, given the outcome o of its request
check_actuator_health(o) ==
    LET endpoint == base_url \o "/actuator/health" IN
    IF o.kind = "error"
    THEN Return(APICheckResult(endpoint, "GET", 0, o.elapsed, FALSE, None,
                               PyStr(o.error.msg)))
    ELSE LET success == o.status_code = 200 IN
         IF success /\ ~o.body.decoded
         THEN \* response.json() raises inside the try block
              IF json_error.is_request_exception
              THEN Return(APICheckResult(endpoint, "GET", 0, o.elapsed, FALSE, None,
                                         PyStr(JSONErrorText)))
              ELSE Raise(json_error.name)
         ELSE Return(APICheckResult(
                  endpoint, "GET", o.status_code, o.elapsed, success,
                  IF success THEN o.body.value ELSE None,
                  IF success THEN None
                  ELSE PyStr("HTTP " \o ToString(o.status_code) \o ": " \o o.body.text)))

\* The request check_actuator_info issues
info_request == Request("GET", base_url \o "/actuator/info", None, None)

\* check_actuator_info with the message shape of check_custom_api
check_actuator_info_expected_message(o) ==
    LET endpoint == base_url \o "/actuator/info" IN
    IF o.kind = "error"
    THEN Return(APICheckResult(endpoint, "GET", 0, o.elapsed, FALSE, None,
                               PyStr(o.error.msg)))
    ELSE LET success == o.status_code = 200 IN
         IF success /\ ~o.body.decoded
         THEN IF json_error.is_request_exception
              THEN Return(APICheckResult(endpoint, "GET", 0, o.elapsed, FALSE, None,
                                         PyStr(JSONErrorText)))
              ELSE Raise(json_error.name)
         ELSE Return(APICheckResult(
                  endpoint, "GET", o.status_code, o.elapsed, success,
                  IF success THEN o.body.value ELSE None,
                  IF success THEN None
                  ELSE PyStr("Expected 200, got " \o ToString(o.status_code))))

\* check_actuator_info, given the outcome o of its request
check_actuator_info(o) ==
    LET endpoint == base_url \o "/actuator/info" IN
    IF o.kind = "error"
    THEN Return(APICheckResult(endpoint, "GET", 0, o.elapsed, FALSE, None,
                               PyStr(o.error.msg)))
    ELSE LET success == o.status_code = 200 IN
         IF success /\ ~o.body.decoded
         THEN IF json_error.is_request_exception
              THEN Return(APICheckResult(endpoint, "GET", 0, o.elapsed, FALSE, None,
                                         PyStr(JSONErrorText)))
              ELSE Raise(json_error.name)
         ELSE Return(APICheckResult(
                  endpoint, "GET", o.status_code, o.elapsed, success,
                  IF success THEN o.body.value ELSE None,
                  IF success THEN None
                  ELSE PyStr("HTTP " \o ToString(o.status_code) \o ": " \o o.body.text)))

\* full_url of check_custom_api
full_url(endpoint) ==
    IF ~startswith(endpoint, "http") THEN base_url \o endpoint ELSE endpoint

\* The request check_custom_api issues
custom_request(endpoint, method, headers, json_data) ==
    Request(upper(method), full_url(endpoint),
            IF Truthy(headers) THEN headers ELSE EmptyDict, json_data)

\* check_custom_api without its `except requests.exceptions.RequestException`
check_custom_api_no_except(endpoint, method, headers, json_data, expected_status, o) ==
    IF o.kind = "error"
    THEN Raise(o.error.cls)
    ELSE LET success == o.status_code = expected_status IN
         IF ~o.body.decoded /\ ~json_error.is_json_decode_error
         THEN Raise(json_error.name)
         ELSE Return(APICheckResult(
                  full_url(endpoint), upper(method), o.status_code, o.elapsed, success,
                  IF o.body.decoded THEN o.body.value ELSE None,
                  IF success THEN None
                  ELSE PyStr("Expected " \o ToString(expected_status) \o ", got "
                             \o ToString(o.status_code))))

\* check_custom_api taking every status below 400 for a success (response.ok)
check_custom_api_success_ok(endpoint, method, headers, json_data, expected_status, o) ==
    IF o.kind = "error"
    THEN Return(APICheckResult(full_url(endpoint), upper(method), 0, o.elapsed, FALSE,
                               None, PyStr(o.error.msg)))
    ELSE LET success == o.status_code < 400 IN
         IF ~o.body.decoded /\ ~json_error.is_json_decode_error
         THEN IF json_error.is_request_exception
              THEN Return(APICheckResult(full_url(endpoint), upper(method), 0, o.elapsed,
                                         FALSE, None, PyStr(JSONErrorText)))
              ELSE Raise(json_error.name)
         ELSE Return(APICheckResult(
                  full_url(endpoint), upper(method), o.status_code, o.elapsed, success,
                  IF o.body.decoded THEN o.body.value ELSE None,
                  IF success THEN None
                  ELSE PyStr("Expected " \o ToString(expected_status) \o ", got "
                             \o ToString(o.status_code))))

\* check_custom_api decoding the body only on success, as the fixed probes do
check_custom_api_body_on_success(endpoint, method, headers, json_data, expected_status, o) ==
    IF o.kind = "error"
    THEN Return(APICheckResult(full_url(endpoint), upper(method), 0, o.elapsed, FALSE,
                               None, PyStr(o.error.msg)))
    ELSE LET success == o.status_code = expected_status IN
         IF success /\ ~o.body.decoded /\ ~json_error.is_json_decode_error
         THEN IF json_error.is_request_exception
              THEN Return(APICheckResult(full_url(endpoint), upper(method), 0, o.elapsed,
                                         FALSE, None, PyStr(JSONErrorText)))
              ELSE Raise(json_error.name)
         ELSE Return(APICheckResult(
                  full_url(endpoint), upper(method), o.status_code, o.elapsed, success,
                  IF success /\ o.body.decoded THEN o.body.value ELSE None,
                  IF success THEN None
                  ELSE PyStr("Expected " \o ToString(expected_status) \o ", got "
                             \o ToString(o.status_code))))

\* check_custom_api, given the outcome o of its request
check_custom_api(endpoint, method, headers, json_data, expected_status, o) ==
    IF o.kind = "error"
    THEN Return(APICheckResult(full_url(endpoint), upper(method), 0, o.elapsed, FALSE,
                               None, PyStr(o.error.msg)))
    ELSE LET success == o.status_code = expected_status IN
         IF ~o.body.decoded /\ ~json_error.is_json_decode_error
         THEN \* response.json() raises what `except json.JSONDecodeError` lets through
              IF json_error.is_request_exception
              THEN Return(APICheckResult(full_url(endpoint), upper(method), 0, o.elapsed,
                                         FALSE, None, PyStr(JSONErrorText)))
              ELSE Raise(json_error.name)
         ELSE Return(APICheckResult(
                  full_url(endpoint), upper(method), o.status_code, o.elapsed, success,
                  IF o.body.decoded THEN o.body.value ELSE None,
                  IF success THEN None
                  ELSE PyStr("Expected " \o ToString(expected_status) \o ", got "
                             \o ToString(o.status_code))))

----------------------------------------------------------------------------
(* check_deployment_status *)

\* deployment_status_of with the elif testing the info probe instead of the health probe
deployment_status_of_info_elif(health, info) ==
    IF health.success /\ info.success THEN "HEALTHY"
    ELSE IF info.success THEN "DEGRADED"
    ELSE "DOWN"

\* A checker that keeps reporting DOWN once a deployment check found DOWN
deployment_status_of_sticky_down(health, info) ==
    IF /\ earlier # <<>>
       /\ earlier[Len(earlier)].op = "check_deployment_status"
       /\ earlier[Len(earlier)].result.kind = "return"
       /\ earlier[Len(earlier)].result.value.deployment_status = "DOWN"
    THEN "DOWN"
    ELSE IF health.success /\ info.success THEN "HEALTHY"
    ELSE IF health.success THEN "DEGRADED"
    ELSE "DOWN"

\* deployment_status, from the two probes' results
deployment_status_of(health, info) ==
    IF health.success /\ info.success THEN "HEALTHY"
    ELSE IF health.success THEN "DEGRADED"
    ELSE "DOWN"

\* module_status_of with overall_status left at the initial "UNKNOWN"
module_status_of_overall_unknown(module_name, health, info, now) ==
    ModuleHealthStatus(module_name, "UNKNOWN",
                       PyOr(health.response_body, EmptyDict), <<health, info>>,
                       deployment_status_of(health, info), now)

\* module_status_of without the `or {}` of line 267
module_status_of_body_as_is(module_name, health, info, now) ==
    ModuleHealthStatus(module_name, deployment_status_of(health, info),
                       health.response_body, <<health, info>>,
                       deployment_status_of(health, info), now)

\* module_status, assembled at time `now`
module_status_of(module_name, health, info, now) ==
    ModuleHealthStatus(module_name, deployment_status_of(health, info),
                       PyOr(health.response_body, EmptyDict), <<health, info>>,
                       deployment_status_of(health, info), now)

----------------------------------------------------------------------------
(* validate_request_response_contract *)

\* An expected_response_schema: a dict, held as its items in insertion order
Schema(items) == [type |-> "dict", items |-> items]

\* bool(expected_response_schema)
SchemaTruthy(schema) == schema.type # "NoneType" /\ Len(schema.items) > 0

Errors(errors) == [kind |-> "errors", errors |-> errors]

\* One pass of the loop body over (key, expected_type): the errors it appends,
\* or the exception it raises
check_field(response_body, key, expected_type) ==
    CASE response_body.type = "dict" ->
            IF key \notin DOMAIN response_body.members
            THEN Errors(<<"Missing expected field: " \o key>>)
            ELSE LET actual_type == TypeName(response_body.members[key]) IN
                 IF actual_type # expected_type
                 THEN Errors(<<"Type mismatch for " \o key \o ": expected "
                               \o expected_type \o ", got " \o actual_type>>)
                 ELSE Errors(<<>>)
      [] response_body.type = "list" ->
            IF \A i \in DOMAIN response_body.items : response_body.items[i] # PyStr(key)
            THEN Errors(<<"Missing expected field: " \o key>>)
            ELSE Raise("TypeError")    \* response_body[key]: a list is not indexed by a str
      [] response_body.type = "str" ->
            IF ~StrContains(response_body.s, key)
            THEN Errors(<<"Missing expected field: " \o key>>)
            ELSE Raise("TypeError")    \* response_body[key]: a str is not indexed by a str
      [] OTHER -> Raise("TypeError")   \* key not in response_body: not iterable

\* check_fields leaving the loop at the first field that is in error
RECURSIVE check_fields_first_error_only(_, _, _)
check_fields_first_error_only(response_body, items, i) ==
    IF i > Len(items) THEN Errors(<<>>)
    ELSE LET first == check_field(response_body, items[i].key, items[i].expected_type) IN
         IF first.kind = "raise" \/ Len(first.errors) > 0 THEN first
         ELSE check_fields_first_error_only(response_body, items, i + 1)

\* The loop over expected_response_schema.items(), from the i-th item on
RECURSIVE check_fields(_, _, _)
check_fields(response_body, items, i) ==
    IF i > Len(items) THEN Errors(<<>>)
    ELSE LET first == check_field(response_body, items[i].key, items[i].expected_type) IN
         IF first.kind = "raise" THEN first
         ELSE LET rest == check_fields(response_body, items, i + 1) IN
              IF rest.kind = "raise" THEN rest
              ELSE Errors(first.errors \o rest.errors)

\* The probe of validate_request_response_contract taking any 2xx status as expected
contract_probe_any_2xx(endpoint, method, headers, request_data, o) ==
    check_custom_api(endpoint, method, headers, request_data,
                     IF o.kind = "response" /\ o.status_code \in 200..299
                     THEN o.status_code ELSE DefaultExpectedStatus, o)

\* api_result = self.check_custom_api(endpoint, method, headers=headers,
\* json_data=request_data): expected_status is left at its default
contract_probe(endpoint, method, headers, request_data, o) ==
    check_custom_api(endpoint, method, headers, request_data, DefaultExpectedStatus, o)

contract_result(endpoint, method, contract_valid, errors) ==
    [endpoint |-> endpoint, method |-> method, contract_valid |-> contract_valid,
     request_validation |-> EmptyDict, response_validation |-> EmptyDict,
     errors |-> errors]

\* The report returned when the probe did not succeed
api_call_failed(endpoint, method, result) ==
    contract_result(endpoint, method, FALSE,
                    <<"API call failed: " \o (IF result.error_message.type = "str"
                                              THEN result.error_message.s
                                              ELSE "None")>>)

\* validate_response without line 328: contract_valid keeps its initial False
validate_response_valid_never_set(endpoint, method, expected_response_schema, result) ==
    IF ~result.success
    THEN Return(api_call_failed(endpoint, method, result))
    ELSE LET checked == IF SchemaTruthy(expected_response_schema)
                        THEN check_fields(result.response_body,
                                          expected_response_schema.items, 1)
                        ELSE Errors(<<>>) IN
         IF checked.kind = "raise" THEN checked
         ELSE Return(contract_result(endpoint, method, FALSE, checked.errors))

\* validate_response going on to the schema after a failed probe
validate_response_no_early_return(endpoint, method, expected_response_schema, result) ==
    LET failed == IF result.success THEN <<>>
                  ELSE api_call_failed(endpoint, method, result).errors
        checked == IF SchemaTruthy(expected_response_schema)
                   THEN check_fields(result.response_body,
                                     expected_response_schema.items, 1)
                   ELSE Errors(<<>>) IN
    IF checked.kind = "raise" THEN checked
    ELSE Return(contract_result(endpoint, method,
                                Len(failed \o checked.errors) = 0,
                                failed \o checked.errors))

\* validate_request_response_contract after its probe returned `result`
validate_response(endpoint, method, expected_response_schema, result) ==
    IF ~result.success
    THEN Return(api_call_failed(endpoint, method, result))
    ELSE LET checked == IF SchemaTruthy(expected_response_schema)
                        THEN check_fields(result.response_body,
                                          expected_response_schema.items, 1)
                        ELSE Errors(<<>>) IN
         IF checked.kind = "raise" THEN checked
         ELSE Return(contract_result(endpoint, method, Len(checked.errors) = 0,
                                     checked.errors))

----------------------------------------------------------------------------
(* The arguments callers pass *)

\* base_url as given to __init__
BaseUrlArgs == {"https://test-app.com", "https://test-app.com//"}

Endpoints ==
    IF scope = "narrow" THEN {"/api/test"}
    ELSE {"/api/test", "https://other-app.com/api", "http-status"}
Methods == IF scope = "narrow" THEN {"GET"} ELSE {"GET", "post"}
ExpectedStatuses == IF scope = "narrow" THEN {200, 503} ELSE {0, 200, 201}
ModuleNames == {"test-module"}

\* (headers, json_data / request_data)
RequestExtras ==
    IF scope = "narrow" THEN {<<None, None>>}
    ELSE {<<None, None>>,
          <<PyDict([k \in {"Authorization"} |-> PyStr("Bearer token123")]),
            PyDict([k \in {"name"} |-> PyStr("Test User")])>>}

SchemaKeys == {"users", "totalCount", "status"}
SchemaTypes == {"list", "int"}
SchemaItems == [key : SchemaKeys, expected_type : SchemaTypes]

\* A dict has each key once
DistinctKeys(items) ==
    \A i, j \in DOMAIN items : i # j => items[i].key # items[j].key

SchemaSeqs ==
    UNION {{items \in [1..n -> SchemaItems] : DistinctKeys(items)} : n \in 0..MaxSchemaLen}

Schemas ==
    IF scope = "narrow"
    THEN {None, Schema(<<[key |-> "status", expected_type |-> "int"]>>)}
    ELSE {None} \cup {Schema(items) : items \in SchemaSeqs}

----------------------------------------------------------------------------
(* main() *)

\* --api-data as given on the command line, and what json.loads makes of it
ApiDataArgs == {
    [text |-> "{\"name\": \"Test User\"}", decoded |-> TRUE,
     value |-> PyDict([k \in {"name"} |-> PyStr("Test User")])],
    [text |-> "{name: Test User", decoded |-> FALSE, value |-> None],
    [text |-> "", decoded |-> FALSE, value |-> None]
}

\* The optional arguments of a run: --api-endpoint, --api-method (default GET) and
\* --api-data; an option that is not given is None
CliArgs == {
    [api_endpoint |-> None, api_method |-> "GET", api_data |-> None],
    [api_endpoint |-> PyStr("/api/test"), api_method |-> "post", api_data |-> None],
    [api_endpoint |-> PyStr("/api/test"), api_method |-> "post",
     api_data |-> PyStr("{\"name\": \"Test User\"}")],
    [api_endpoint |-> PyStr("/api/test"), api_method |-> "GET",
     api_data |-> PyStr("{name: Test User")],
    [api_endpoint |-> None, api_method |-> "GET", api_data |-> PyStr("{name: Test User")],
    [api_endpoint |-> PyStr("/api/test"), api_method |-> "GET", api_data |-> PyStr("")]
}

\* json.loads(text): the value, or None with ok = FALSE for json.JSONDecodeError
json_loads(text) ==
    LET b == CHOOSE b \in ApiDataArgs : b.text = text IN
    [ok |-> b.decoded, value |-> b.value]

\* No run of main()
NoMain ==
    [stage |-> "none", cli |-> None, json_data |-> None, deployment_status |-> "",
     exit_code |-> -1]

\* A main() that also exits 0 on a degraded deployment
exit_code_of_degraded_ok(deployment_status) ==
    IF deployment_status \in {"HEALTHY", "DEGRADED"} THEN 0 ELSE 1

\* sys.exit(0) if module_status.deployment_status == "HEALTHY", else sys.exit(1)
exit_code_of(deployment_status) ==
    IF deployment_status = "HEALTHY" THEN 0 ELSE 1

----------------------------------------------------------------------------
(* The calls remembered *)

\* A probe's result apart from its timing
untimed_check(result) == [result EXCEPT !.response_time = 0]

\* How an operation ended, apart from timing and timestamp
Untimed(r) ==
    IF r.kind # "return" THEN r
    ELSE LET v == r.value IN
         Return(IF "response_time" \in DOMAIN v THEN untimed_check(v)
                ELSE IF "timestamp" \in DOMAIN v
                THEN [v EXCEPT !.timestamp = 0,
                               !.api_checks = [i \in DOMAIN v.api_checks |->
                                                  untimed_check(v.api_checks[i])]]
                ELSE v)

\* What came of an operation's requests, apart from timing
Responses(outcomes) == [i \in DOMAIN outcomes |-> [outcomes[i] EXCEPT !.elapsed = 0]]

\* The call that has ended: its arguments, the responses to its requests, its result
EndedCall ==
    [op |-> op, args |-> args, responses |-> Responses(got), result |-> Untimed(ret)]

\* The remembered calls after `call` ended
Remembered(calls, call) ==
    IF Len(calls) < MaxEarlier THEN Append(calls, call) ELSE Append(Tail(calls), call)

----------------------------------------------------------------------------
(* The state machine *)

NoArgs == [none |-> TRUE]

\* The checker as __init__ leaves it, no operation called yet
Constructed ==
    /\ base_url = rstrip_slash(base_url_arg)
    /\ pc = "idle"
    /\ op = "none"
    /\ args = NoArgs
    /\ sent = <<>>
    /\ got = <<>>
    /\ health_result = None
    /\ info_result = None
    /\ api_result = None
    /\ ret = NoValue
    /\ main = NoMain
    /\ earlier = <<>>

Init ==
    /\ scope = "wide"
    /\ base_url_arg \in BaseUrlArgs
    /\ json_error \in JSONErrorClasses
    /\ Constructed

\* One checker whose callers draw from the narrow inputs and whose calls are remembered
Init18 ==
    /\ scope = "narrow"
    /\ base_url_arg = "https://test-app.com//"
    /\ json_error \in {c \in JSONErrorClasses : c.is_request_exception}
    /\ Constructed

\* A caller runs checker.check_actuator_health()
CallHealth ==
    /\ pc = "idle"
    /\ \E o \in Outcomes :
        /\ sent' = <<health_request>>
        /\ got' = <<o>>
        /\ ret' = check_actuator_health(o)
    /\ op' = "check_actuator_health"
    /\ args' = NoArgs
    /\ health_result' = None /\ info_result' = None /\ api_result' = None
    /\ pc' = "done"
    /\ UNCHANGED <<scope, earlier, main, base_url_arg, base_url, json_error>>

\* A caller runs checker.check_actuator_info()
CallInfo ==
    /\ pc = "idle"
    /\ \E o \in Outcomes :
        /\ sent' = <<info_request>>
        /\ got' = <<o>>
        /\ ret' = check_actuator_info(o)
    /\ op' = "check_actuator_info"
    /\ args' = NoArgs
    /\ health_result' = None /\ info_result' = None /\ api_result' = None
    /\ pc' = "done"
    /\ UNCHANGED <<scope, earlier, main, base_url_arg, base_url, json_error>>

\* A caller runs checker.check_custom_api(endpoint, method, headers, json_data, expected_status)
CallCustom ==
    /\ pc = "idle"
    /\ \E endpoint \in Endpoints, method \in Methods, extras \in RequestExtras,
          expected_status \in ExpectedStatuses :
      \E o \in OutcomesOf(full_url(endpoint)) :
        /\ args' = [endpoint |-> endpoint, method |-> method, headers |-> extras[1],
                    json_data |-> extras[2], expected_status |-> expected_status]
        /\ sent' = <<custom_request(endpoint, method, extras[1], extras[2])>>
        /\ got' = <<o>>
        /\ ret' = check_custom_api(endpoint, method, extras[1], extras[2],
                                   expected_status, o)
    /\ op' = "check_custom_api"
    /\ health_result' = None /\ info_result' = None /\ api_result' = None
    /\ pc' = "done"
    /\ UNCHANGED <<scope, earlier, main, base_url_arg, base_url, json_error>>

\* A caller enters checker.check_deployment_status(module_name)
DeployCall ==
    /\ pc = "idle"
    /\ \E module_name \in ModuleNames : args' = [module_name |-> module_name]
    /\ op' = "check_deployment_status"
    /\ pc' = "deploy_health"
    /\ sent' = <<>>
    /\ got' = <<>>
    /\ ret' = NoValue
    /\ health_result' = None /\ info_result' = None /\ api_result' = None
    /\ UNCHANGED <<scope, earlier, main, base_url_arg, base_url, json_error>>

\* health_result = self.check_actuator_health()
DeployHealth ==
    /\ pc = "deploy_health"
    /\ \E o \in Outcomes :
        LET r == check_actuator_health(o) IN
        /\ sent' = Append(sent, health_request)
        /\ got' = Append(got, o)
        /\ IF r.kind = "raise"
           THEN pc' = "done" /\ ret' = r /\ UNCHANGED health_result
           ELSE pc' = "deploy_info" /\ health_result' = r.value /\ UNCHANGED ret
    /\ UNCHANGED <<scope, earlier, main, base_url_arg, base_url, json_error, op, args, info_result, api_result>>

\* info_result = self.check_actuator_info()
DeployInfo ==
    /\ pc = "deploy_info"
    /\ \E o \in Outcomes :
        LET r == check_actuator_info(o) IN
        /\ sent' = Append(sent, info_request)
        /\ got' = Append(got, o)
        /\ IF r.kind = "raise"
           THEN pc' = "done" /\ ret' = r /\ UNCHANGED info_result
           ELSE pc' = "deploy_assemble" /\ info_result' = r.value /\ UNCHANGED ret
    /\ UNCHANGED <<scope, earlier, main, base_url_arg, base_url, json_error, op, args, health_result, api_result>>

\* The verdict is derived and the ModuleHealthStatus returned
DeployAssemble ==
    /\ pc = "deploy_assemble"
    /\ \E now \in Elapsed :
        ret' = Return(module_status_of(args.module_name, health_result, info_result, now))
    /\ pc' = "done"
    /\ UNCHANGED <<scope, earlier, main, base_url_arg, base_url, json_error, op, args, sent, got, health_result,
                   info_result, api_result>>

\* A caller enters checker.validate_request_response_contract(endpoint, method,
\* request_data, expected_response_schema, headers)
ContractCall ==
    /\ pc = "idle"
    /\ \E endpoint \in Endpoints, method \in Methods, extras \in RequestExtras,
          schema \in Schemas :
        args' = [endpoint |-> endpoint, method |-> method, headers |-> extras[1],
                 request_data |-> extras[2], expected_response_schema |-> schema]
    /\ op' = "validate_request_response_contract"
    /\ pc' = "contract_probe"
    /\ sent' = <<>>
    /\ got' = <<>>
    /\ ret' = NoValue
    /\ health_result' = None /\ info_result' = None /\ api_result' = None
    /\ UNCHANGED <<scope, earlier, main, base_url_arg, base_url, json_error>>

\* api_result = self.check_custom_api(endpoint, method, headers=headers, json_data=request_data)
ContractProbe ==
    /\ pc = "contract_probe"
    /\ \E o \in OutcomesOf(full_url(args.endpoint)) :
        LET r == contract_probe(args.endpoint, args.method, args.headers,
                                args.request_data, o) IN
        /\ sent' = Append(sent, custom_request(args.endpoint, args.method, args.headers,
                                               args.request_data))
        /\ got' = Append(got, o)
        /\ IF r.kind = "raise"
           THEN pc' = "done" /\ ret' = r /\ UNCHANGED api_result
           ELSE pc' = "contract_validate" /\ api_result' = r.value /\ UNCHANGED ret
    /\ UNCHANGED <<scope, earlier, main, base_url_arg, base_url, json_error, op, args, health_result, info_result>>

\* The report is built from api_result and returned, or the schema walk raises
ContractValidate ==
    /\ pc = "contract_validate"
    /\ ret' = validate_response(args.endpoint, args.method,
                                args.expected_response_schema, api_result)
    /\ pc' = "done"
    /\ UNCHANGED <<scope, earlier, main, base_url_arg, base_url, json_error, op, args, sent, got, health_result,
                   info_result, api_result>>

\* main() is started: the arguments are parsed and --api-data is decoded; on a
\* decode error the process exits 1, else the checker is built and
\* check_deployment_status entered
MainStart ==
    /\ pc = "idle"
    /\ \E cli \in CliArgs, module_name \in ModuleNames :
        IF Truthy(cli.api_data) /\ ~json_loads(cli.api_data.s).ok
        THEN /\ main' = [stage |-> "exited", cli |-> cli, json_data |-> None,
                         deployment_status |-> "", exit_code |-> 1]
             /\ pc' = "done"
             /\ args' = NoArgs
        ELSE /\ main' = [stage |-> "deploy", cli |-> cli,
                         json_data |-> IF Truthy(cli.api_data)
                                       THEN json_loads(cli.api_data.s).value ELSE None,
                         deployment_status |-> "", exit_code |-> -1]
             /\ pc' = "deploy_health"
             /\ args' = [module_name |-> module_name]
    /\ op' = "main"
    /\ sent' = <<>>
    /\ got' = <<>>
    /\ ret' = NoValue
    /\ health_result' = None /\ info_result' = None /\ api_result' = None
    /\ UNCHANGED <<scope, earlier, base_url_arg, base_url, json_error>>

\* check_deployment_status has ended inside main(): an exception ends the process
\* with exit code 1; else the status is printed, and main() goes on to the
\* additional probe or exits on the deployment status. Of module_status only
\* deployment_status is read after this point (line 408).
MainAfterDeploy ==
    /\ pc = "done"
    /\ main.stage = "deploy"
    /\ IF ret.kind = "raise"
       THEN /\ main' = [main EXCEPT !.stage = "exited", !.exit_code = 1]
            /\ pc' = "done"
       ELSE IF Truthy(main.cli.api_endpoint)
       THEN /\ main' = [main EXCEPT !.stage = "custom",
                                    !.deployment_status = ret.value.deployment_status]
            /\ pc' = "main_custom"
       ELSE /\ main' = [main EXCEPT !.stage = "exited",
                                    !.deployment_status = ret.value.deployment_status,
                                    !.exit_code = exit_code_of(ret.value.deployment_status)]
            /\ pc' = "done"
    /\ ret' = NoValue
    /\ got' = <<>>
    /\ health_result' = None /\ info_result' = None
    /\ UNCHANGED <<scope, earlier, base_url_arg, base_url, json_error, op, args, sent, api_result>>

\* api_result = checker.check_custom_api(args.api_endpoint, args.api_method,
\* json_data=json_data), its result is printed and the process exits
MainCustom ==
    /\ pc = "main_custom"
    /\ \E o \in OutcomesOf(full_url(main.cli.api_endpoint.s)) :
        LET r == check_custom_api(main.cli.api_endpoint.s, main.cli.api_method, None,
                                  main.json_data, DefaultExpectedStatus, o) IN
        /\ sent' = Append(sent, custom_request(main.cli.api_endpoint.s,
                                               main.cli.api_method, None, main.json_data))
        /\ got' = <<o>>
        /\ IF r.kind = "raise"
           THEN /\ ret' = r
                /\ main' = [main EXCEPT !.stage = "exited", !.exit_code = 1]
                /\ UNCHANGED api_result
           ELSE /\ api_result' = r.value
                /\ main' = [main EXCEPT !.stage = "exited",
                                        !.exit_code = exit_code_of(main.deployment_status)]
                /\ UNCHANGED ret
    /\ pc' = "done"
    /\ UNCHANGED <<scope, earlier, base_url_arg, base_url, json_error, op, args, health_result, info_result>>

\* The operation has returned or raised: its frame is dropped and the checker
\* is ready for the next call
CallEnds ==
    /\ pc = "done"
    /\ main.stage \in {"none", "exited"}
    /\ pc' = "idle"
    /\ op' = "none"
    /\ args' = NoArgs
    /\ sent' = <<>>
    /\ got' = <<>>
    /\ ret' = NoValue
    /\ health_result' = None /\ info_result' = None /\ api_result' = None
    /\ main' = NoMain
    /\ earlier' = IF scope = "narrow" THEN Remembered(earlier, EndedCall) ELSE earlier
    /\ UNCHANGED <<scope, base_url_arg, base_url, json_error>>

Next ==
    \/ CallHealth
    \/ CallInfo
    \/ CallCustom
    \/ DeployCall
    \/ DeployHealth
    \/ DeployInfo
    \/ DeployAssemble
    \/ ContractCall
    \/ ContractProbe
    \/ ContractValidate
    \/ MainStart
    \/ MainAfterDeploy
    \/ MainCustom
    \/ CallEnds

Spec == Init /\ [][Next]_vars

\* Calls on one checker, one after another, each remembered when it ends
Next18 ==
    \/ CallHealth
    \/ CallInfo
    \/ CallCustom
    \/ DeployCall
    \/ DeployHealth
    \/ DeployInfo
    \/ DeployAssemble
    \/ ContractCall
    \/ ContractProbe
    \/ ContractValidate
    \/ CallEnds

Spec18 == Init18 /\ [][Next18]_vars

----------------------------------------------------------------------------
(* Properties *)

Probes == {"check_actuator_health", "check_actuator_info", "check_custom_api"}

\* A top-level operation has ended
Ended(o) == pc = "done" /\ op = o
Returned(o) == Ended(o) /\ ret.kind = "return"

\* The expected status of the probe that has ended
ExpectedOfEnded ==
    IF op = "check_custom_api" THEN args.expected_status ELSE DefaultExpectedStatus

\* C1: the status check_deployment_status returns follows the truth table of the
\* two probe results: (success, success) HEALTHY, (success, failure) DEGRADED,
\* (failure, anything) DOWN.
C1_TruthTable ==
    Returned("check_deployment_status") =>
        LET h == ret.value.api_checks[1].success
            i == ret.value.api_checks[2].success
            verdict == ret.value.deployment_status
        IN /\ (h /\ i) => verdict = "HEALTHY"
           /\ (h /\ ~i) => verdict = "DEGRADED"
           /\ ~h => verdict = "DOWN"

\* A deployment check returned with health failed and info succeeded
C1_Witness ==
    /\ Returned("check_deployment_status")
    /\ ~ret.value.api_checks[1].success
    /\ ret.value.api_checks[2].success
    /\ ret.value.deployment_status = "DOWN"

\* C2: every call of check_deployment_status, whatever came of the health request,
\* issues exactly one health request, then exactly one info request once the health
\* probe has finished, and returns a status whose checks are [health result,
\* info result]; no outcome of the health probe aborts the info probe.
C2_BothProbesAlwaysRun ==
    /\ pc = "deploy_info" => sent = <<health_request>>
    /\ pc = "deploy_assemble" => sent = <<health_request, info_request>>
    /\ Ended("check_deployment_status") =>
           /\ ret.kind = "return"
           /\ sent = <<health_request, info_request>>
           /\ ret.value.api_checks = <<health_result, info_result>>

\* r is the result the claim gives a request that ended in the transport error of o
TransportFailureResult(r, o) ==
    /\ r.status_code = 0
    /\ r.success = FALSE
    /\ r.error_message = PyStr(o.error.msg)
    /\ r.response_body = None

\* C3: a transport failure of a probe's request is returned, not raised: the result
\* has status_code 0, success false, the error text as error_message and no body.
\* This holds of the three probes called directly and of the probes run inside
\* check_deployment_status and validate_request_response_contract.
C3_TransportFailureIsAResult ==
    /\ (pc = "done" /\ op \in Probes /\ got[1].kind = "error") =>
           ret.kind = "return" /\ TransportFailureResult(ret.value, got[1])
    /\ (op = "check_deployment_status" /\ Len(got) >= 1 /\ got[1].kind = "error") =>
           TransportFailureResult(health_result, got[1])
    /\ (op = "check_deployment_status" /\ Len(got) >= 2 /\ got[2].kind = "error") =>
           TransportFailureResult(info_result, got[2])
    /\ (op = "validate_request_response_contract" /\ Len(got) >= 1
          /\ got[1].kind = "error") =>
           TransportFailureResult(api_result, got[1])

\* check_custom_api ended on a transport failure
C3_Witness ==
    /\ Returned("check_custom_api")
    /\ got[1].kind = "error"
    /\ ret.value.status_code = 0
    /\ ret.value.error_message = PyStr("Connection refused")

\* C4: every probe whose request is answered 200 with a body that is not JSON (the
\* expected status being 200) returns success = true, status_code = 200 and
\* response_body = None.
C4_NonJsonBodyIsNotAFailure ==
    (pc = "done" /\ op \in Probes /\ got[1].kind = "response"
       /\ got[1].status_code = 200 /\ ~got[1].body.decoded
       /\ ExpectedOfEnded = 200) =>
        /\ ret.kind = "return"
        /\ ret.value.success
        /\ ret.value.status_code = 200
        /\ ret.value.response_body = None

\* C5, as claimed: every probe answered with a status other than the expected one
\* and a body that decodes returns success = false, an error_message, and the
\* decoded body as response_body.
C5_BodyAttachedOnUnexpectedStatus ==
    (pc = "done" /\ op \in Probes /\ got[1].kind = "response"
       /\ got[1].status_code # ExpectedOfEnded /\ got[1].body.decoded) =>
        /\ ret.kind = "return"
        /\ ~ret.value.success
        /\ ret.value.error_message # None
        /\ ret.value.response_body = got[1].body.value

\* C5, amended: on a status other than the expected one with a body that decodes,
\* every probe returns success = false and an error_message; check_custom_api
\* attaches the decoded body, and the health and info probes return
\* response_body = None.
C5_BodyAttachedByCustomProbeOnly ==
    (pc = "done" /\ op \in Probes /\ got[1].kind = "response"
       /\ got[1].status_code # ExpectedOfEnded /\ got[1].body.decoded) =>
        /\ ret.kind = "return"
        /\ ~ret.value.success
        /\ ret.value.error_message # None
        /\ op = "check_custom_api" => ret.value.response_body = got[1].body.value
        /\ op # "check_custom_api" => ret.value.response_body = None

\* check_custom_api returned a failed result that carries a decoded dict
C5_Witness ==
    /\ Returned("check_custom_api")
    /\ got[1].kind = "response"
    /\ got[1].status_code = 503
    /\ ~ret.value.success
    /\ ret.value.response_body = PyDict([k \in {"status"} |-> PyStr("UP")])
    /\ ret.value.error_message = PyStr("Expected 200, got 503")

\* C6, as claimed: in every result a probe returns, success is true exactly when
\* status_code equals the expected status (200 for the health and info probes),
\* for every expected status a caller can pass, 0 included.
C6_SuccessIffExpectedStatus ==
    (pc = "done" /\ op \in Probes /\ ret.kind = "return") =>
        (ret.value.success <=> ret.value.status_code = ExpectedOfEnded)

\* C6, amended: in every result a probe returns, success implies that status_code
\* equals the expected status, and status_code equal to the expected status implies
\* success unless the expected status is 0; a result with status_code = 0 (no
\* response was obtained) always has success = false.
C6_SuccessIffExpectedStatusUnlessZero ==
    (pc = "done" /\ op \in Probes /\ ret.kind = "return") =>
        /\ ret.value.success => ret.value.status_code = ExpectedOfEnded
        /\ (ret.value.status_code = ExpectedOfEnded /\ ExpectedOfEnded # 0)
               => ret.value.success
        /\ ret.value.status_code = 0 => ~ret.value.success

\* check_custom_api, expecting status 0, returned a transport failure
C6_Witness ==
    /\ Returned("check_custom_api")
    /\ args.expected_status = 0
    /\ got[1].kind = "error"
    /\ ret.value.status_code = 0
    /\ ~ret.value.success

MessageIffFailed(r) == (r.error_message # None) <=> ~r.success

\* C7: in every result a probe returns, error_message is present exactly when
\* success is false; so too for the results of the probes run inside
\* check_deployment_status and validate_request_response_contract.
C7_ErrorMessageIffFailed ==
    /\ (pc = "done" /\ op \in Probes /\ ret.kind = "return") => MessageIffFailed(ret.value)
    /\ health_result # None => MessageIffFailed(health_result)
    /\ info_result # None => MessageIffFailed(info_result)
    /\ api_result # None => MessageIffFailed(api_result)

\* The health probe returned a failed result for a 503 answer
C7_Witness ==
    /\ Returned("check_actuator_health")
    /\ got[1].kind = "response"
    /\ got[1].status_code = 503
    /\ ~ret.value.success
    /\ ret.value.error_message = PyStr("HTTP 503: <html>Not JSON response</html>")

\* The fields of a schema, none for None and for {}
ItemsOf(schema) == IF SchemaTruthy(schema) THEN schema.items ELSE <<>>

\* validate_request_response_contract has ended, its probe having returned a result
ContractEndedAfterProbe ==
    Ended("validate_request_response_contract") /\ api_result # None

\* C8: validate_request_response_contract returns a report whatever result its
\* probe returned and whatever the schema: also when the probe succeeded with
\* response_body None or a decoded value that is not a dict, and the schema names
\* a field.
C8_ContractAlwaysReturnsAReport ==
    ContractEndedAfterProbe => ret.kind = "return"

\* C9: when the probe did not succeed the report has contract_valid = false and
\* errors is the one entry "API call failed: <error_message>"; the schema is not
\* examined.
C9_ShortCircuitOnProbeFailure ==
    (ContractEndedAfterProbe /\ ~api_result.success) =>
        /\ ret.kind = "return"
        /\ ret.value.contract_valid = FALSE
        /\ ret.value.errors = <<"API call failed: " \o api_result.error_message.s>>

\* The probe failed on a 503 whose body lacks both fields of the schema
C9_Witness ==
    /\ ContractEndedAfterProbe
    /\ ~api_result.success
    /\ api_result.response_body = EmptyDict
    /\ Len(ItemsOf(args.expected_response_schema)) = 2
    /\ ret.kind = "return"
    /\ ret.value.errors = <<"API call failed: Expected 200, got 503">>

\* The error the claim gives one field of the schema, "" for none
FieldError(body, item) ==
    IF item.key \notin DOMAIN body.members
    THEN "Missing expected field: " \o item.key
    ELSE IF TypeName(body.members[item.key]) # item.expected_type
         THEN "Type mismatch for " \o item.key \o ": expected " \o item.expected_type
              \o ", got " \o TypeName(body.members[item.key])
         ELSE ""

\* The errors of a schema's fields, in declared order
ExpectedErrors(body, items) ==
    SelectSeq([i \in 1..Len(items) |-> FieldError(body, items[i])],
              LAMBDA m : m # "")

\* C10: when the probe succeeded and the decoded body is a dict, errors is the list
\* got by walking the schema's fields in declared order with one entry per missing
\* field and one per field of another type; each field gives at most one error,
\* and a fully matching schema gives errors = [] and contract_valid = true.
C10_ErrorsFollowTheSchema ==
    (ContractEndedAfterProbe /\ api_result.success
       /\ api_result.response_body.type = "dict") =>
        LET items == ItemsOf(args.expected_response_schema)
            body == api_result.response_body IN
        /\ ret.kind = "return"
        /\ ret.value.errors = ExpectedErrors(body, items)
        /\ Len(ret.value.errors) <= Len(items)
        /\ (\A i \in 1..Len(items) : FieldError(body, items[i]) = "") =>
               (ret.value.errors = <<>> /\ ret.value.contract_valid)

\* A report with a type mismatch for the first field and the second field missing
C10_Witness ==
    /\ ContractEndedAfterProbe
    /\ api_result.success
    /\ api_result.response_body.type = "dict"
    /\ ret.kind = "return"
    /\ ret.value.errors = <<"Type mismatch for users: expected list, got str",
                            "Missing expected field: totalCount">>

\* C11: in every report validate_request_response_contract returns, on the
\* short-circuit path and on the schema path, contract_valid is true exactly when
\* errors is empty.
C11_ValidIffNoErrors ==
    Returned("validate_request_response_contract") =>
        (ret.value.contract_valid <=> ret.value.errors = <<>>)

\* A report with no error, after a schema of two fields was checked
C11_Witness ==
    /\ Returned("validate_request_response_contract")
    /\ Len(ItemsOf(args.expected_response_schema)) = 2
    /\ ret.value.errors = <<>>
    /\ ret.value.contract_valid

\* C12: a received status other than the expected one gives error_message
\* "HTTP <status code>: <raw response text>" in the health and info probes (on any
\* non-200 response) and "Expected <expected status>, got <actual status>" in
\* check_custom_api.
C12_TwoMessageShapes ==
    (pc = "done" /\ op \in Probes /\ got[1].kind = "response"
       /\ got[1].status_code # ExpectedOfEnded) =>
        /\ ret.kind = "return"
        /\ op \in {"check_actuator_health", "check_actuator_info"} =>
               ret.value.error_message =
                   PyStr("HTTP " \o ToString(got[1].status_code) \o ": "
                         \o got[1].body.text)
        /\ op = "check_custom_api" =>
               ret.value.error_message =
                   PyStr("Expected " \o ToString(args.expected_status) \o ", got "
                         \o ToString(got[1].status_code))

\* The info probe was answered 503 with the text [] and reports it
C12_Witness ==
    /\ Returned("check_actuator_info")
    /\ got[1].kind = "response"
    /\ got[1].status_code = 503
    /\ ret.value.error_message = PyStr("HTTP 503: []")

\* The scenario of the claim: health answered 200 with {"status": "UP"}, info 503
HealthUpInfo503 ==
    /\ Returned("check_deployment_status")
    /\ got[1].kind = "response" /\ got[1].status_code = 200
    /\ got[1].body.text = "{\"status\": \"UP\"}"
    /\ got[2].kind = "response" /\ got[2].status_code = 503

ScenarioResult ==
    HealthUpInfo503 =>
        /\ ret.value.deployment_status = "DEGRADED"
        /\ Len(ret.value.api_checks) = 2
        /\ ret.value.actuator_health = PyDict([k \in {"status"} |-> PyStr("UP")])

\* C13, as claimed: actuator_health of the returned status is the health probe's
\* decoded response body, or an empty mapping when the probe has no body; health
\* 200 {"status": "UP"} with info 503 gives DEGRADED, two checks and
\* actuator_health = {"status": "UP"}.
C13_HealthDetailsIsBodyOrEmpty ==
    /\ Returned("check_deployment_status") =>
           ret.value.actuator_health =
               (IF health_result.response_body # None
                THEN health_result.response_body ELSE EmptyDict)
    /\ ScenarioResult

\* The values Python takes for false among those a body decodes to
FalsyValues == {None, EmptyDict, PyList(<<>>), PyStr(""), PyInt(0), PyBool(FALSE)}

\* C13, amended: actuator_health is the health probe's response_body, or an empty
\* mapping when that body is None or another value Python takes for false (an
\* empty list, an empty string, 0, false); the scenario gives DEGRADED, two checks
\* and actuator_health = {"status": "UP"}.
C13_HealthDetailsIsBodyOrEmptyWhenFalsy ==
    /\ Returned("check_deployment_status") =>
           ret.value.actuator_health =
               (IF health_result.response_body \in FalsyValues
                THEN EmptyDict ELSE health_result.response_body)
    /\ ScenarioResult

\* The scenario has happened and the status carries the health body
C13_Witness ==
    /\ HealthUpInfo503
    /\ ret.value.deployment_status = "DEGRADED"
    /\ ret.value.actuator_health = PyDict([k \in {"status"} |-> PyStr("UP")])

\* C14: in every status check_deployment_status returns, overall_status equals
\* deployment_status and is HEALTHY, DEGRADED or DOWN, never UNKNOWN.
C14_StatusesEqualAndKnown ==
    Returned("check_deployment_status") =>
        /\ ret.value.overall_status = ret.value.deployment_status
        /\ ret.value.deployment_status \in {"HEALTHY", "DEGRADED", "DOWN"}
        /\ ret.value.overall_status # "UNKNOWN"

\* A status returned as DEGRADED in both fields
C14_Witness ==
    /\ Returned("check_deployment_status")
    /\ health_result.success /\ ~info_result.success
    /\ ret.value.overall_status = "DEGRADED"
    /\ ret.value.deployment_status = "DEGRADED"

\* main() has run to its last statement (lines 408-411)
MainReachedEnd ==
    /\ main.stage = "exited"
    /\ main.deployment_status # ""
    /\ ret.kind # "raise"

\* --api-data was given on the command line and is not valid JSON
ApiDataGivenAndInvalid ==
    /\ main.stage # "none"
    /\ main.cli.api_data # None
    /\ ~json_loads(main.cli.api_data.s).ok

\* C15: a run of main() that reaches its end exits 0 if deployment_status is
\* HEALTHY and 1 if it is DEGRADED or DOWN, whether or not the additional probe
\* was run and whatever it returned.
C15_ExitCodeFollowsDeploymentStatus ==
    MainReachedEnd =>
        /\ main.deployment_status \in {"HEALTHY", "DEGRADED", "DOWN"}
        /\ main.exit_code = (IF main.deployment_status = "HEALTHY" THEN 0 ELSE 1)

\* C15 witnesses: a healthy deployment exits 0 though the additional probe
\* failed; a degraded one exits 1 though the additional probe succeeded
C15_Witness ==
    /\ MainReachedEnd
    /\ api_result # None
    /\ \/ main.deployment_status = "HEALTHY" /\ ~api_result.success /\ main.exit_code = 0
       \/ main.deployment_status = "DEGRADED" /\ api_result.success /\ main.exit_code = 1

\* C16: when --api-data is given and is not valid JSON, the process ends with a
\* non-zero exit status and no probe has issued a request.
C16_InvalidApiDataExitsBeforeProbes ==
    ApiDataGivenAndInvalid =>
        /\ main.stage = "exited"
        /\ main.exit_code # 0
        /\ sent = <<>>

\* C17: the report of validate_request_response_contract carries endpoint and
\* method as the caller passed them, on the failure and on the success path, while
\* the probe result it is built from carries the absolute URL and the uppercased
\* method.
C17_ReportEchoesProbeNormalizes ==
    (ContractEndedAfterProbe /\ ret.kind = "return") =>
        /\ ret.value.endpoint = args.endpoint
        /\ ret.value.method = args.method
        /\ HasScheme(api_result.endpoint)
        /\ api_result.method = upper(args.method)

\* C19: the URL contacted, which is the result's endpoint, is the base URL without
\* its trailing slashes followed by /actuator/health or /actuator/info for the
\* fixed probes; for check_custom_api it is the caller's endpoint when that is a
\* fully-qualified URL and the base URL followed by the endpoint for every other
\* endpoint, one whose text begins with "http" included.
C19_UrlContacted ==
    /\ Ended("check_actuator_health") =>
           sent[1].url = rstrip_slash(base_url_arg) \o "/actuator/health"
    /\ Ended("check_actuator_info") =>
           sent[1].url = rstrip_slash(base_url_arg) \o "/actuator/info"
    /\ Ended("check_custom_api") =>
           sent[1].url = (IF HasScheme(args.endpoint) THEN args.endpoint
                          ELSE rstrip_slash(base_url_arg) \o args.endpoint)
    /\ (\E o \in Probes : Returned(o)) => ret.value.endpoint = sent[1].url

\* C20: validate_request_response_contract probes with expected status 200: for a
\* received status other than 200, a 2xx one with a body matching the schema
\* included, the report has contract_valid = false and the single error
\* "API call failed: Expected 200, got <status>"; contract_valid = true only
\* when the response status was 200.
C20_ContractExpects200 ==
    (ContractEndedAfterProbe /\ ret.kind = "return") =>
        /\ (got[1].kind = "response" /\ got[1].status_code # 200) =>
               /\ ret.value.contract_valid = FALSE
               /\ ret.value.errors = <<"API call failed: Expected 200, got "
                                       \o ToString(got[1].status_code)>>
        /\ ret.value.contract_valid =>
               (got[1].kind = "response" /\ got[1].status_code = 200)

\* A 201 whose body matches both fields of the schema is reported as a failure
C20_Witness ==
    /\ ContractEndedAfterProbe /\ ret.kind = "return"
    /\ got[1].kind = "response" /\ got[1].status_code = 201
    /\ got[1].body.decoded /\ got[1].body.value.type = "dict"
    /\ Len(ItemsOf(args.expected_response_schema)) = 2
    /\ ExpectedErrors(got[1].body.value, ItemsOf(args.expected_response_schema)) = <<>>
    /\ ret.value.contract_valid = FALSE
    /\ ret.value.errors = <<"API call failed: Expected 200, got 201">>

\* The i-th remembered call had the arguments of the call that has ended and got
\* the responses it got
SameCall(i) ==
    /\ earlier[i].op = op
    /\ earlier[i].args = args
    /\ earlier[i].responses = Responses(got)

====
